---- MODULE Spec2Model ----
(***************************************************************************)
(* A model of src/src/chat.ts: the SmolAI function registry (a JavaScript  *)
(* Map keyed by function name) and the chat() retry loop around the        *)
(* completion provider.                                                    *)
(*                                                                         *)
(* JavaScript values that the code inspects with typeof / === null are     *)
(* tagged records: [type |-> "string", val |-> s], [type |-> "function",   *)
(* name |-> n, id |-> i], Null, Undefined.  A text (message content) is a  *)
(* sequence of string segments, read as their concatenation, so that a     *)
(* template literal embedding an error message can be written down.        *)
(***************************************************************************)
EXTENDS Integers, Sequences, FiniteSets, TLC

\* Bound of the model: provider calls one chat() invocation may issue.
MaxCalls == 3

VARIABLES
  registeredFunctions,  \* this.registeredFunctions: the Map, in insertion order
  retryLimit,           \* this.retryLimit
  retryAttempts,        \* this.retryAttempts
  pc,                   \* position of the chat() call
  messages,             \* opts.messages, the caller's array, mutated in place
  forceFunctionCall,    \* opts.forceFunctionCall
  shouldRetry,          \* local of chat()
  functions,            \* local of chat(): the list built before the loop
  request,              \* argument of the last createChatCompletion call
  chatCompletion,       \* local of chat(): the last provider response
  selectedFunction,     \* local of the iteration
  args,                 \* local of the iteration
  results,              \* local of the iteration: what fullFunction returned
  timer,                \* delay of the pending backoff timer, -1 when none
  error,                \* what chat() threw, NoError otherwise
  calls,                \* history: provider calls issued by this chat()
  outcomes,             \* history: per provider response, how it was handled
  invocations,          \* history: fullFunction invocations of this chat()
  entryMessages,        \* history: opts.messages when chat() was entered
  iterMessages,         \* history: opts.messages when the iteration began
  lastAdded,            \* history: per name, the last addFunction not undone
  lastOp                \* history: the caller's last registry operation

vars == << registeredFunctions, retryLimit, retryAttempts, pc, messages,
           forceFunctionCall, shouldRetry, functions, request, chatCompletion,
           selectedFunction, args, results, timer, error, calls, outcomes,
           invocations, entryMessages, iterMessages, lastAdded, lastOp >>

chatVars == << pc, messages, forceFunctionCall, shouldRetry, functions,
               request, chatCompletion, selectedFunction, args, results, timer,
               error, calls, outcomes, invocations, entryMessages, iterMessages >>

----------------------------------------------------------------------------
(* JavaScript values *)

Null == [type |-> "null"]
Undefined == [type |-> "undefined"]
Str(s) == [type |-> "string", val |-> s]
Callable(id, name) == [type |-> "function", name |-> name, id |-> id]

IsFunction(v) == v.type = "function"

\* The names functions are registered and selected under.
Names == {"getWeather", "getTime"}

getWeather == Callable("f1", "getWeather")
getWeather2 == Callable("f2", "getWeather")
getTime == Callable("g1", "getTime")

\* schema: a Zod schema object (z.object({city: z.string()})) or a plain
\* JSON-schema document of the same shape.
ZodCity == [kind |-> "zod", shape |-> "object{city:string}"]
JsonCity == [kind |-> "json", doc |-> "object{city:string}"]

IsZodSchema(schema) == schema.kind = "zod"

ZodToJsonSchema(schema) == [kind |-> "json", doc |-> schema.shape]

\* The (func, schema) pairs the caller registers.
AddInputs == {<<getWeather, ZodCity>>, <<getWeather2, JsonCity>>,
              <<getTime, ZodCity>>}

\* The arguments the caller passes to deregisterFunction / getFunction.
FuncArgs == {Str(n) : n \in Names} \cup {getWeather, getTime}

----------------------------------------------------------------------------
(* The Map: a sequence of entries [key, value] in insertion order *)

MapHas(m, k) == \E i \in 1..Len(m) : m[i].key = k

MapGet(m, k) ==
  IF MapHas(m, k)
  THEN m[CHOOSE i \in 1..Len(m) : m[i].key = k /\ \A j \in 1..(i-1) : m[j].key # k].value
  ELSE Undefined

\* An entry added without looking for the key.
MapSetAppending(m, k, v) == Append(m, [key |-> k, value |-> v])

MapSet(m, k, v) ==
  IF MapHas(m, k)
  THEN [i \in 1..Len(m) |-> IF m[i].key = k THEN [key |-> k, value |-> v] ELSE m[i]]
  ELSE Append(m, [key |-> k, value |-> v])

\* clear() in place of delete(k).
MapDeleteAll(m, k) == << >>

MapDelete(m, k) == SelectSeq(m, LAMBDA e : e.key # k)

MapKeys(m) == {m[i].key : i \in 1..Len(m)}

\* Object.keys(map): the own enumerable string-keyed properties of the Map
\* object.  Map entries are not properties, and the code sets none.
ObjectKeys(m) == << >>

----------------------------------------------------------------------------
(* The registry *)

Descriptor(func, schema) ==
  [type |-> "object",
   name |-> func.name,
   fullFunction |-> func,
   schema |-> schema,
   jsonSchema |-> IF IsZodSchema(schema) THEN ZodToJsonSchema(schema) ELSE schema]

\* The key an operation given `func: string | Function` uses.
KeyOf(func) == IF IsFunction(func) THEN func.name ELSE func.val

Thrown(msg) == [type |-> "thrown", message |-> msg]
NoError == [type |-> "none"]
IsThrown(v) == v.type = "thrown"

Truthy(v) == v.type \notin {"undefined", "null"}

GetFunction(m, func) ==
  LET fn == MapGet(m, KeyOf(func))
  IN IF Truthy(fn) THEN fn ELSE Thrown(<<"smolChat error - function ", KeyOf(func), " not found. Please report a bug.">>)

ListFunctions(m) ==
  LET keys == ObjectKeys(m)
  IN [i \in 1..Len(keys) |-> GetFunction(m, Str(keys[i]))]

\* No chat() call is in flight: the caller runs.  The caller awaits a chat()
\* call before it uses the instance again (section 5 of the specification
\* leaves anything else to the caller).
Idle == pc = "idle"

AddFunction(func, schema) ==
  /\ Idle
  /\ registeredFunctions' =
       MapSet(registeredFunctions, func.name, Descriptor(func, schema))
  /\ lastAdded' = [lastAdded EXCEPT ![func.name] = Descriptor(func, schema)]
  /\ lastOp' = [op |-> "addFunction", key |-> func.name, before |-> registeredFunctions]
  /\ UNCHANGED << retryLimit, retryAttempts, chatVars >>

DeregisterFunction(func) ==
  /\ Idle
  /\ registeredFunctions' = MapDelete(registeredFunctions, KeyOf(func))
  /\ lastAdded' = [lastAdded EXCEPT ![KeyOf(func)] = Undefined]
  /\ lastOp' = [op |-> "deregisterFunction", key |-> KeyOf(func), before |-> registeredFunctions]
  /\ UNCHANGED << retryLimit, retryAttempts, chatVars >>

----------------------------------------------------------------------------
(* Argument decoding and validation *)

\* Argument texts the provider may send.
GoodArgs == "{\"city\":\"Paris\"}"
WrongTypeArgs == "{\"city\":1}"
MalformedArgs == "{city"
ArgTexts == {GoodArgs, WrongTypeArgs, MalformedArgs}

\* JSON.parse: the decoded value, or the SyntaxError it throws.
JSONParse(text) ==
  CASE text = GoodArgs -> [type |-> "object", city |-> [type |-> "string", val |-> "Paris"]]
    [] text = WrongTypeArgs -> [type |-> "object", city |-> [type |-> "number", val |-> "1"]]
    [] OTHER -> Thrown(<<"Unexpected token c in JSON at position 1">>)

\* schema.parse(json) of a Zod schema: the typed value, or the ZodError.
ZodParse(schema, json) ==
  IF schema.shape = "object{city:string}"
     /\ json.type = "object" /\ json.city.type = "string"
  THEN json
  ELSE Thrown(<<"Expected string, received number">>)

\* The decoded value checked against the schema document as well.
ParseArgsCheckingDocument(fn, text) ==
  LET json == JSONParse(text)
  IN IF IsThrown(json) THEN json
     ELSE IF json.type = "object" /\ json.city.type = "string" THEN json
     ELSE Thrown(<<"Expected string, received number">>)

\* Lines 105-112: the body of the try block; a Thrown value is what the
\* catch clause receives.
ParseArgs(fn, text) ==
  LET json == JSONParse(text)
  IN IF IsThrown(json) THEN json
     ELSE IF IsZodSchema(fn.schema) THEN ZodParse(fn.schema, json) ELSE json

CorrectiveMessage(err) ==
  [role |-> "user",
   content |-> <<"Your function call involved invalid arguments.">>
               \o err.message
               \o <<"Please respond only with valid JSON under the provided schema.">>]

\* Values a registered function returns.
Results == {[type |-> "object", tempC |-> "18"]}

\* JSON.stringify of such a value.
JSONStringify(v) == <<"{\"tempC\":", v.tempC, "}">>

\* The result interpolated instead of serialized.
FunctionMessageRaw(fn, value) ==
  [role |-> "function", name |-> fn.name, content |-> <<"[object Object]">>]

\* Lines 136-140.
FunctionMessage(fn, value) ==
  [role |-> "function", name |-> fn.name, content |-> JSONStringify(value)]

----------------------------------------------------------------------------
(* The request *)

\* Line 16: the default system message.
SystemMessage == [role |-> "system", content |-> <<"You are a helpful chatbot. You are helping a user with a task.">>]

\* An element of opts.messages that is a bare string.
Bare(text) == [type |-> "string", val |-> text]
IsBareString(m) == "type" \in DOMAIN m /\ m.type = "string"

CoerceMessage(m) ==
  IF IsBareString(m) THEN [role |-> "user", content |-> m.val] ELSE m

\* Lines 180-182 of the earlier version kept in the file's comments.
RequestFunctionCallLegacy(force) ==
  IF IsFunction(force) THEN Str(force.name) ELSE force

\* The callable passed on as it is.
RequestFunctionCallRaw(force) ==
  IF force # Null THEN force ELSE Undefined

\* Lines 81-84: the function_call field of the request.
RequestFunctionCall(force) ==
  IF force # Null
  THEN IF IsFunction(force) THEN Str(force.name) ELSE force
  ELSE Undefined

RequestFunctions(force, fns) == IF force = Null THEN << >> ELSE fns

BuildRequest(msgs, force, fns) ==
  [model |-> "gpt-3.5-turbo-0613",
   messages |-> <<SystemMessage>> \o [i \in 1..Len(msgs) |-> CoerceMessage(msgs[i])],
   functions |-> RequestFunctions(force, fns),
   function_call |-> RequestFunctionCall(force)]

\* Conversations and policies the caller passes to chat().
Conversations ==
  { << Bare(<<"What is the weather in Paris?">>),
       [role |-> "assistant", content |-> <<"Let me check.">>] >> }

Policies == {Null, Undefined, Str("getWeather"), getWeather}

\* Responses of the provider: choices[0].message.function_call.
FunctionCalls ==
  {Undefined} \cup
  {[type |-> "object", name |-> n, arguments |-> a] : n \in Names, a \in ArgTexts}

----------------------------------------------------------------------------
(* chat() *)

\* No call of chat() in flight.
InitFrame ==
  /\ pc = "idle"
  /\ messages = << >>
  /\ forceFunctionCall = Undefined
  /\ shouldRetry = FALSE
  /\ functions = << >>
  /\ request = Null
  /\ chatCompletion = Null
  /\ selectedFunction = Undefined
  /\ args = Undefined
  /\ results = Undefined
  /\ timer = -1
  /\ error = NoError
  /\ calls = 0
  /\ outcomes = << >>
  /\ invocations = << >>
  /\ entryMessages = << >>
  /\ iterMessages = << >>

\* Line 21 and line 23: the values the constructor leaves.
DefaultRetryLimit == 5
DefaultRetryAttempts == 0
\* Line 22.
retryDelay == 200

\* Values the caller assigns to the public fields before a chat() call.
RetryLimits == {1, DefaultRetryLimit}
RetryAttemptValues == {0, 1}
\* Values of Math.floor(Math.random() * 100) the model draws: the extremes.
Jitters == {0, 99}

SetRetry(limit, attempts) ==
  /\ Idle
  /\ retryLimit' = limit
  /\ retryAttempts' = attempts
  /\ UNCHANGED << registeredFunctions, lastAdded, lastOp, chatVars >>

\* Lines 80-97: the head of an iteration, up to the suspension at the await.
Send(msgs, force, fns) ==
  /\ request' = BuildRequest(msgs, force, fns)
  /\ iterMessages' = msgs
  /\ selectedFunction' = Undefined
  /\ args' = Undefined
  /\ results' = Undefined
  /\ timer' = -1
  /\ pc' = "await"

\* Lines 75-97: entry, and the first iteration up to its await.
ChatStart(msgs, force) ==
  /\ Idle
  /\ messages' = msgs
  /\ entryMessages' = msgs
  /\ forceFunctionCall' = force
  /\ chatCompletion' = Null
  /\ shouldRetry' = FALSE
  /\ functions' = ListFunctions(registeredFunctions)
  /\ Send(msgs, force, ListFunctions(registeredFunctions))
  /\ error' = NoError
  /\ calls' = 1
  /\ outcomes' = << >>
  /\ invocations' = << >>
  /\ lastOp' = [op |-> "chat"]
  /\ UNCHANGED << registeredFunctions, retryLimit, retryAttempts, lastAdded >>

\* unshift() in place of push().
PushFront(arr, item) == <<item>> \o arr

\* Lines 115 and 136: opts.messages.push(item).
Push(arr, item) == Append(arr, item)

\* The flag assigned in every iteration, not only in the catch clause.
ShouldRetryReassigned(flag, caught) == caught

\* Lines 77 and 122: shouldRetry after the try statement; only the catch
\* clause assigns it.
ShouldRetryAfterTry(flag, caught) == IF caught THEN TRUE ELSE flag

\* The counter incremented in the catch clause.
RetryAttemptsIncremented(attempts, caught) ==
  IF caught THEN attempts + 1 ELSE attempts

\* Lines 113-123: this.retryAttempts after the try statement; no statement
\* of chat() assigns it.
RetryAttemptsAfterTry(attempts, caught) == attempts

\* The strict comparison replaced by <=.
LoopConditionInclusive(retry, attempts, limit) == retry /\ attempts <= limit

\* The flag left out of the test.
LoopConditionNoFlag(retry, attempts, limit) == attempts < limit

\* Line 152.
LoopCondition(retry, attempts, limit) == retry /\ attempts < limit

\* Math.ceil in place of Math.floor.
BackoffDelayCeil(attempts, jitter) == attempts * retryDelay + jitter + 1

\* Lines 147-149.
BackoffDelay(attempts, jitter) == attempts * retryDelay + jitter

\* Lines 100-134: the provider's response arrives; the selection is looked
\* up, the arguments are decoded and validated, and fullFunction is called.
Handled(thrown, fn, parsed) ==
  [thrown |-> thrown,
   fn |-> fn,
   caught |-> IsThrown(parsed),
   args |-> IF IsThrown(parsed) THEN Undefined ELSE parsed,
   pushed |-> IF IsThrown(parsed) THEN <<CorrectiveMessage(parsed)>> ELSE << >>]

\* The lookup moved inside the try block: its error is caught like a
\* validation error.
InterpretLookupCaught(m, function_call) ==
  IF function_call = Undefined
  THEN Handled(Thrown(<<"TypeError: Cannot read properties of undefined (reading 'name')">>), Undefined, Undefined)
  ELSE LET fn == GetFunction(m, Str(function_call.name))
       IN IF IsThrown(fn) THEN Handled(NoError, Undefined, fn)
          ELSE Handled(NoError, fn, ParseArgs(fn, function_call.arguments))

\* The selection read inside the try block: a missing one is caught like a
\* validation error.
InterpretNoSelectionCaught(m, function_call) ==
  IF function_call = Undefined
  THEN Handled(NoError, Undefined, Thrown(<<"TypeError: Cannot read properties of undefined (reading 'name')">>))
  ELSE LET fn == GetFunction(m, Str(function_call.name))
       IN IF IsThrown(fn) THEN Handled(fn, Undefined, Undefined)
          ELSE Handled(NoError, fn, ParseArgs(fn, function_call.arguments))

Interpret(m, function_call) ==
  IF function_call = Undefined
  THEN Handled(Thrown(<<"TypeError: Cannot read properties of undefined (reading 'name')">>), Undefined, Undefined)
  ELSE LET fn == GetFunction(m, Str(function_call.name))
       IN IF IsThrown(fn) THEN Handled(fn, Undefined, Undefined)
          ELSE IF ~Truthy(fn)
          THEN Handled(Thrown(<<"unexpected error2 - gpt attempted to call a function not found">>), Undefined, Undefined)
          ELSE Handled(NoError, fn, ParseArgs(fn, function_call.arguments))

\* What a response is, for the history: no selection, a name that is not a
\* key of the registry, text that is not JSON ("parse"), JSON that the
\* selected function's Zod schema rejects ("schema"), or "ok".
Classify(m, function_call) ==
  IF function_call = Undefined THEN "noselection"
  ELSE IF function_call.name \notin MapKeys(m) THEN "notfound"
  ELSE IF function_call.arguments = MalformedArgs THEN "parse"
  ELSE IF function_call.arguments = WrongTypeArgs
          /\ MapGet(m, function_call.name).schema.kind = "zod" THEN "schema"
  ELSE "ok"

ReceiveCompletion(function_call) ==
  /\ pc = "await"
  /\ chatCompletion' = [function_call |-> function_call, call |-> calls]
  /\ outcomes' = Append(outcomes, Classify(registeredFunctions, function_call))
  /\ LET r == Interpret(registeredFunctions, function_call)
     IN IF IsThrown(r.thrown)
        THEN /\ pc' = "failed"
             /\ error' = r.thrown
             /\ UNCHANGED << messages, shouldRetry, retryAttempts, selectedFunction,
                             args, invocations >>
        ELSE /\ selectedFunction' = r.fn
             /\ args' = r.args
             /\ messages' = IF r.caught THEN Push(messages, r.pushed[1]) ELSE messages
             /\ shouldRetry' = ShouldRetryAfterTry(shouldRetry, r.caught)
             /\ retryAttempts' = RetryAttemptsAfterTry(retryAttempts, r.caught)
             /\ invocations' = Append(invocations, [call |-> calls, fn |-> r.fn, args |-> r.args])
             /\ pc' = "executing"
             /\ error' = error
  /\ UNCHANGED << registeredFunctions, retryLimit, forceFunctionCall,
                  functions, request, results, timer, calls, entryMessages, iterMessages,
                  lastAdded, lastOp >>

\* The promise of the backoff timer not awaited: the loop test and the next
\* request follow the append at once.
FunctionReturnNoWait(value, jitter) ==
  /\ pc = "executing"
  /\ results' = value
  /\ messages' = Push(messages, FunctionMessage(selectedFunction, value))
  /\ timer' = BackoffDelay(retryAttempts, jitter)
  /\ IF LoopCondition(shouldRetry, retryAttempts, retryLimit)
     THEN /\ calls < MaxCalls
          /\ request' = BuildRequest(messages', forceFunctionCall, functions)
          /\ iterMessages' = messages'
          /\ calls' = calls + 1
          /\ pc' = "await"
     ELSE /\ pc' = "done"
          /\ UNCHANGED << request, iterMessages, calls >>
  /\ UNCHANGED << registeredFunctions, retryLimit, retryAttempts, forceFunctionCall,
                  shouldRetry, functions, chatCompletion, selectedFunction,
                  args, error, outcomes, invocations, entryMessages,
                  lastAdded, lastOp >>

\* Lines 134-151: fullFunction returns; the result is appended and the
\* backoff timer is set.
FunctionReturn(value, jitter) ==
  /\ pc = "executing"
  /\ results' = value
  /\ messages' = Push(messages, FunctionMessage(selectedFunction, value))
  /\ timer' = BackoffDelay(retryAttempts, jitter)
  /\ pc' = "backoff"
  /\ UNCHANGED << registeredFunctions, retryLimit, retryAttempts, forceFunctionCall,
                  shouldRetry, functions, request, chatCompletion, selectedFunction,
                  args, error, calls, outcomes, invocations, entryMessages,
                  iterMessages, lastAdded, lastOp >>

\* Line 134: fullFunction throws (or its promise rejects); chat() rejects.
FunctionThrow ==
  /\ pc = "executing"
  /\ pc' = "failed"
  /\ error' = Thrown(<<"thrown by fullFunction">>)
  /\ UNCHANGED << registeredFunctions, retryLimit, retryAttempts, messages,
                  forceFunctionCall, shouldRetry, functions, request, chatCompletion,
                  selectedFunction, args, results, timer, calls, outcomes,
                  invocations, entryMessages, iterMessages, lastAdded, lastOp >>

\* Lines 152-155 and 80-97: the timer fires; the loop test either starts the
\* next iteration, up to its await, or chat() returns chatCompletion.
TimerFires ==
  /\ pc = "backoff"
  /\ IF LoopCondition(shouldRetry, retryAttempts, retryLimit)
     THEN /\ calls < MaxCalls
          /\ Send(messages, forceFunctionCall, functions)
          /\ calls' = calls + 1
     ELSE /\ pc' = "done"
          /\ timer' = -1
          /\ UNCHANGED << request, iterMessages, selectedFunction, args, results, calls >>
  /\ UNCHANGED << registeredFunctions, retryLimit, retryAttempts, messages,
                  forceFunctionCall, shouldRetry, functions, chatCompletion, error,
                  outcomes, invocations, entryMessages, lastAdded, lastOp >>

\* Line 155, or a throw: the promise of chat() settles, the caller resumes and
\* the frame of the call is gone.
Settle ==
  /\ pc \in {"done", "failed"}
  /\ pc' = "idle"
  /\ messages' = << >>
  /\ forceFunctionCall' = Undefined
  /\ shouldRetry' = FALSE
  /\ functions' = << >>
  /\ request' = Null
  /\ chatCompletion' = Null
  /\ selectedFunction' = Undefined
  /\ args' = Undefined
  /\ results' = Undefined
  /\ timer' = -1
  /\ error' = NoError
  /\ calls' = 0
  /\ outcomes' = << >>
  /\ invocations' = << >>
  /\ entryMessages' = << >>
  /\ iterMessages' = << >>
  /\ UNCHANGED << registeredFunctions, retryLimit, retryAttempts, lastAdded, lastOp >>

----------------------------------------------------------------------------
(* The specification *)

Init ==
  /\ registeredFunctions = << >>
  /\ retryLimit = DefaultRetryLimit
  /\ retryAttempts = DefaultRetryAttempts
  /\ lastAdded = [n \in Names |-> Undefined]
  /\ lastOp = [op |-> "none"]
  /\ InitFrame

Next ==
  \/ \E in \in AddInputs : AddFunction(in[1], in[2])
  \/ \E func \in FuncArgs : DeregisterFunction(func)
  \/ \E limit \in RetryLimits, attempts \in RetryAttemptValues : SetRetry(limit, attempts)
  \/ \E msgs \in Conversations, force \in Policies : ChatStart(msgs, force)
  \/ \E function_call \in FunctionCalls : ReceiveCompletion(function_call)
  \/ \E value \in Results, jitter \in Jitters : FunctionReturn(value, jitter)
  \/ FunctionThrow
  \/ TimerFires
  \/ Settle

Spec == Init /\ [][Next]_vars

----------------------------------------------------------------------------
(* Properties *)

Running == pc # "idle"

Invalid(o) == o \in {"parse", "schema"}

\* The corrective messages chat() has appended so far.
Correctives ==
  {i \in (Len(entryMessages) + 1)..Len(messages) : messages[i].role = "user"}

\* The response selected a name that is not a key of the registry.
UnknownSelected ==
  /\ Running
  /\ chatCompletion # Null
  /\ chatCompletion.function_call # Undefined
  /\ chatCompletion.function_call.name \notin MapKeys(registeredFunctions)

\* C1: while every response so far carried invalid arguments, chat() has made
\* at most retryLimit retries, i.e. at most retryLimit + 1 provider calls.
C1_RetriesBounded ==
  (Running /\ \A i \in 1..Len(outcomes) : Invalid(outcomes[i]))
    => calls - 1 <= retryLimit

\* C2: a function registered with a Zod schema is invoked only in iterations
\* whose argument text decoded and validated.
C2_NoInvocationOnInvalid ==
  \A i \in 1..Len(invocations) :
    IsZodSchema(invocations[i].fn.schema) => outcomes[invocations[i].call] = "ok"

\* C3: malformed text on the first response and valid text on the second:
\* chat() makes exactly two provider calls, and when it is done exactly one
\* corrective message was added and the attempts counter is 1.
C3_ScenarioB ==
  (Len(outcomes) >= 2 /\ outcomes[1] = "parse" /\ outcomes[2] = "ok")
    => /\ calls = 2
       /\ pc = "done" => (Cardinality(Correctives) = 1 /\ retryAttempts = 1)

\* C4: a response that selects an unregistered name makes chat() fail in that
\* iteration: nothing was invoked in it, nothing was appended in it, and the
\* call that got this response is the last provider call.
C4_UnknownFunctionFatal ==
  UnknownSelected
    => /\ pc = "failed"
       /\ IsThrown(error)
       /\ messages = iterMessages
       /\ \A i \in 1..Len(invocations) : invocations[i].call # chatCompletion.call
       /\ calls = chatCompletion.call

C4_Witness ==
  /\ UnknownSelected
  /\ pc = "failed"
  /\ registeredFunctions # << >>

\* C5: when an iteration whose arguments validated has invoked the function
\* and appended, opts.messages is what it was at the start of the iteration
\* plus one function-role message, named after the descriptor, whose content
\* is the serialized return value.
C5_OneFunctionMessage ==
  (pc = "backoff" /\ outcomes[Len(outcomes)] = "ok")
    => /\ Len(messages) = Len(iterMessages) + 1
       /\ SubSeq(messages, 1, Len(iterMessages)) = iterMessages
       /\ messages[Len(messages)].role = "function"
       /\ messages[Len(messages)].name = selectedFunction.name
       /\ messages[Len(messages)].name = chatCompletion.function_call.name
       /\ results = [type |-> "object", tempC |-> "18"]
            => messages[Len(messages)].content = <<"{\"tempC\":", "18", "}">>

C5_Witness ==
  /\ pc = "backoff"
  /\ outcomes[Len(outcomes)] = "ok"
  /\ calls = 2
  /\ results = [type |-> "object", tempC |-> "18"]

\* C6: unless the policy is disabled, the function specs of the request are
\* exactly the descriptors registered, one per name.
C6_RegisteredFunctionsSent ==
  (Running /\ forceFunctionCall # Null)
    => /\ {request.functions[i] : i \in 1..Len(request.functions)}
            = {MapGet(registeredFunctions, k) : k \in MapKeys(registeredFunctions)}
       /\ Len(request.functions) = Cardinality(MapKeys(registeredFunctions))

\* C7: with forceFunctionCall === null every request has an empty function
\* list and no function_call.
C7_DisabledSendsNothing ==
  (Running /\ forceFunctionCall = Null)
    => /\ request.functions = << >>
       /\ request.function_call = Undefined

C7_Witness ==
  /\ pc = "await"
  /\ forceFunctionCall = Null
  /\ calls = 2
  /\ registeredFunctions # << >>

\* C8: with forceFunctionCall a name N, or a callable named N, every request
\* carries function_call N, registered or not.
C8_ForcedNameSent ==
  /\ (Running /\ forceFunctionCall.type = "string")
       => request.function_call = forceFunctionCall
  /\ (Running /\ forceFunctionCall.type = "function")
       => request.function_call = [type |-> "string", val |-> forceFunctionCall.name]

C8_Witness ==
  /\ pc = "await"
  /\ forceFunctionCall.type = "function"
  /\ calls = 2
  /\ forceFunctionCall.name \notin MapKeys(registeredFunctions)

\* C9: the registry holds at most one entry per name, and getFunction(name),
\* by name or by callable, returns the descriptor of the last addFunction for
\* that name, and throws when there is none or it was deregistered since.
C9_LastRegistrationWins ==
  /\ \A i, j \in 1..Len(registeredFunctions) :
       registeredFunctions[i].key = registeredFunctions[j].key => i = j
  /\ \A func \in FuncArgs :
       LET n == IF func.type = "function" THEN func.name ELSE func.val
       IN IF lastAdded[n] = Undefined
          THEN IsThrown(GetFunction(registeredFunctions, func))
          ELSE GetFunction(registeredFunctions, func) = lastAdded[n]

\* A function was re-registered under a name that held another descriptor.
C9_Witness ==
  /\ lastOp.op = "addFunction"
  /\ MapHas(lastOp.before, lastOp.key)
  /\ MapGet(lastOp.before, lastOp.key) # MapGet(registeredFunctions, lastOp.key)
  /\ Len(registeredFunctions) = 2

\* C10: deregisterFunction of a name that is not registered leaves the
\* registry as it was; of a registered name, it removes that entry and
\* leaves every other entry, and their order, as they were.
C10_DeregisterFrame ==
  lastOp.op = "deregisterFunction"
    => LET before == lastOp.before
           others == {i \in 1..Len(before) : before[i].key # lastOp.key}
       IN /\ ~MapHas(before, lastOp.key) => registeredFunctions = before
          /\ ~MapHas(registeredFunctions, lastOp.key)
          /\ Len(registeredFunctions) = Cardinality(others)
          /\ \A n \in Names \ {lastOp.key} :
               MapGet(registeredFunctions, n) = MapGet(before, n)

\* deregisterFunction of an absent name, with another name registered.
C10_Witness ==
  /\ lastOp.op = "deregisterFunction"
  /\ ~MapHas(lastOp.before, lastOp.key)
  /\ lastOp.before # << >>

\* The response carried no function-call selection.
NoSelection ==
  /\ Running
  /\ chatCompletion # Null
  /\ chatCompletion.function_call = Undefined

IsPrefix(a, b) == Len(a) <= Len(b) /\ SubSeq(b, 1, Len(a)) = a

\* C11: for a function registered with a plain schema document, every text
\* that decodes is accepted: the function is invoked with the decoded value
\* and nothing is appended before the invocation, also for a value that
\* violates the document.
C11_PlainSchemaAcceptsAll ==
  (pc = "executing" /\ selectedFunction.schema.kind = "json"
     /\ chatCompletion.function_call.arguments # MalformedArgs)
    => /\ messages = iterMessages
       /\ chatCompletion.function_call.arguments = GoodArgs
            => args = [type |-> "object", city |-> [type |-> "string", val |-> "Paris"]]
       /\ chatCompletion.function_call.arguments = WrongTypeArgs
            => args = [type |-> "object", city |-> [type |-> "number", val |-> "1"]]
       /\ invocations[Len(invocations)].args = args
       /\ invocations[Len(invocations)].call = calls

C11_Witness ==
  /\ pc = "executing"
  /\ selectedFunction.schema.kind = "json"
  /\ chatCompletion.function_call.arguments = WrongTypeArgs

\* C12: a response without a function-call selection makes chat() fail in
\* that iteration: nothing was invoked in it, nothing was appended in it, and
\* the call that got this response is the last provider call.
C12_NoSelectionFatal ==
  NoSelection
    => /\ pc = "failed"
       /\ IsThrown(error)
       /\ messages = iterMessages
       /\ \A i \in 1..Len(invocations) : invocations[i].call # chatCompletion.call
       /\ calls = chatCompletion.call

C12_Witness ==
  /\ NoSelection
  /\ pc = "failed"
  /\ calls = 2

\* C13: once the last response carried arguments that failed to decode or to
\* validate, chat() has not failed, a corrective user message embedding the
\* error's message was appended in that iteration, and chat() is done only
\* if retryAttempts is not below retryLimit.
C13_RecoverableNeverSurfaced ==
  (Running /\ Len(outcomes) = calls /\ Invalid(outcomes[Len(outcomes)]))
    => /\ pc # "failed"
       /\ error = NoError
       /\ Len(messages) > Len(iterMessages)
       /\ messages[Len(iterMessages) + 1].role = "user"
       /\ \E i \in 1..Len(messages[Len(iterMessages) + 1].content) :
            messages[Len(iterMessages) + 1].content[i]
              \in {"Unexpected token c in JSON at position 1",
                   "Expected string, received number"}
       /\ pc = "done" => retryAttempts >= retryLimit

\* C14: when the backoff of an iteration ends with shouldRetry set and
\* retryAttempts not below retryLimit, chat() returns, without an error, the
\* response of the last provider call.
C14_SilentExhaustion ==
  [][(pc = "backoff" /\ shouldRetry /\ retryAttempts >= retryLimit)
       => /\ pc' = "done"
          /\ error' = NoError
          /\ calls' = calls
          /\ chatCompletion' = chatCompletion
          /\ chatCompletion.call = calls]_vars

C14_Witness ==
  /\ pc = "done"
  /\ shouldRetry
  /\ retryAttempts >= retryLimit
  /\ error = NoError

\* C15: the delay of every backoff timer is at least 0 and below
\* retryAttempts * retryDelay + 100.
C15_BackoffRange ==
  pc = "backoff"
    => /\ timer >= 0
       /\ timer < retryAttempts * retryDelay + 100

C15_Witness ==
  /\ pc = "backoff"
  /\ retryAttempts = retryLimit
  /\ timer = 299

\* C16: when the first response selects a registered function with valid
\* arguments, chat() makes one provider call, invokes the function once and,
\* when it is done, returns that response.
C16_ValidFirstResponse ==
  (Running /\ Len(outcomes) >= 1 /\ outcomes[1] = "ok")
    => /\ calls = 1
       /\ Len(outcomes) = 1
       /\ Len(invocations) = 1
       /\ invocations[1].fn.name = chatCompletion.function_call.name
       /\ pc = "done" => (error = NoError /\ chatCompletion.call = 1)

C16_Witness ==
  /\ pc = "done"
  /\ outcomes = <<"ok">>
  /\ Len(invocations) = 1

\* C17: during a chat() call every step leaves opts.messages with what it
\* held before as a prefix, and what it held at entry is a prefix of it at
\* every point, also when the call fails.
C17_AppendOnly ==
  [][Running'
       => /\ IsPrefix(entryMessages', messages')
          /\ Running => (IsPrefix(messages, messages') /\ entryMessages' = entryMessages)]_vars

C17_Witness ==
  /\ pc = "failed"
  /\ Len(messages) >= Len(entryMessages) + 2

\* C18: a provider call is issued by a running chat() only when every earlier
\* call was answered, the function invoked in the iteration has returned and
\* the backoff timer was pending; at most one call is unanswered at any time.
C18_OneCallOutstanding ==
  [][/\ (Running /\ calls' > calls)
          => /\ pc = "backoff"
             /\ timer >= 0
             /\ Len(outcomes) = calls
             /\ results # Undefined
             /\ calls' = calls + 1
     /\ Running' => (calls' - Len(outcomes') \in {0, 1})]_vars

C18_Witness ==
  /\ pc = "await"
  /\ calls = 2
  /\ Len(outcomes) = 1

\* C19: no step of a chat() call, from its entry to its return or throw,
\* changes retryAttempts.
C19_AttemptsUnchanged ==
  [][(Running \/ Running') => retryAttempts' = retryAttempts]_vars

C19_Witness ==
  /\ pc \in {"done", "failed"}
  /\ calls = 2
  /\ Invalid(outcomes[1])

\* C20: during a chat() call shouldRetry is true exactly when some response
\* so far failed to decode or to validate: false at entry, and true from the
\* first failure on, whatever the later responses.
C20_ShouldRetryMonotone ==
  Running => (shouldRetry <=> \E i \in 1..Len(outcomes) : Invalid(outcomes[i]))

C20_Witness ==
  /\ pc = "backoff"
  /\ outcomes = <<"parse", "ok">>
  /\ shouldRetry

====
